---- MODULE Spec2Model ----
(***************************************************************************)
(* space-search: the exploration managers (unguided / guided / A*, with    *)
(* or without route reconstruction, with or without a visited set) and     *)
(* the Searcher iterator that drives them, over a small family of search   *)
(* spaces.                                                                 *)
(*                                                                         *)
(* Option<T> is a sequence of length at most one: None is << >> and        *)
(* Some(x) is <<x>>.  Vec / VecDeque are sequences; Vec index i (from 0)   *)
(* is sequence position i + 1.                                             *)
(***************************************************************************)
EXTENDS Integers, Sequences, FiniteSets, TLC

VARIABLES
    space,        \* the domain collaborator: next_states_with_costs, is_solution, score
    initial_state,\* the state handed to Searcher::new
    variant,      \* which Manager type the Searcher is instantiated with
    fringe,       \* Manager.fringe (VecDeque or BinaryHeap)
    explored,     \* Manager.explored (HashSet; stays empty in unhashable managers)
    parents,      \* Manager.parents (Vec; stays empty in no_route managers)
    depth_first,  \* Manager.depth_first (unguided managers)
    pc,           \* "new", "typed": no Searcher yet; "ready": no call in progress;
                  \* "running": inside Searcher::next; "panicked": the expect failed
    result,       \* what the last finished call of Searcher::next returned
    pulls,        \* history: calls of Searcher::next started so far
    popped,       \* history: what the last pop_state of the current call returned
    expansions,   \* history: register_current_state calls so far (saturating)
    placed,       \* history: per state value, entries put into the fringe so far (saturating)
    answers,      \* history: per state value, the first two answers of valid_state
    first_seen,   \* history: per state value, the first item built for it (by
                  \* initialize for the initial state, by prepare_state otherwise)
    turn,         \* history: parity of the turns of the loop taken by the current call
    returned,     \* history: what each finished call of Searcher::next returned, in order
    admitted,     \* history: the items the last expansion of the current call put
                  \* into the fringe, in the order it placed them
    rebuilt,      \* history: the calls of prepare_result_from the caller made itself
                  \* since the last call of Searcher::next: the item and the value
    tie_break     \* which of several equal greatest entries BinaryHeap::pop hands out:
                  \* "any" of them, or always the "least" or the "greatest" in the
                  \* order the model keeps a heap in

vars == <<space, initial_state, variant, fringe, explored, parents, depth_first,
          pc, result, pulls, popped, expansions, placed, answers, first_seen,
          turn, returned, admitted, rebuilt, tie_break>>

----------------------------------------------------------------------------
(* Bounds of the model. *)

MaxEdges == 3       \* transitions of a search space, over all states
MaxPulls == 2       \* calls of Searcher::next per run
MaxFringe == 5      \* Searcher::next is not followed past a fringe of this length
MaxArena == 6       \* ... nor past an arena of this length
MaxCumulative == 6  \* ... nor past a cumulative cost of this size
GridRadius == 11    \* the grid is followed out to this distance on each axis
MaxGridPops == 12   \* pops of an unguided unhashable call followed on the grid
MaxRebuilds == 2    \* calls of prepare_result_from a caller makes between calls of next
MaxDrainPulls == 3  \* calls of Searcher::next in a run that pulls until None

States == 0 .. 2    \* the state values of a search space
Scores == 0 .. 1    \* the values Scoreable::score takes
Costs == {1, 3}     \* per-edge costs a weighted space draws from
Estimates == 0 .. 2 \* the values Scoreable::score takes in a weighted space

None == << >>
Some(x) == <<x>>

Min(a, b) == IF a < b THEN a ELSE b

----------------------------------------------------------------------------
(* The manager types under src/search. *)

Variants ==
    { [ordering |-> o, route |-> r, hashable |-> h] :
        o \in {"unguided", "guided", "a_star"}, r \in BOOLEAN, h \in BOOLEAN }
    \ { [ordering |-> "a_star", route |-> FALSE, hashable |-> TRUE] }

(* Scoreable::score of the space being searched. *)
score(s) == space.score[s]

(* SolutionIdentifiable::is_solution. *)
is_solution(s) == s \in space.solution

(* A fringe item (NoContext, StateParent, StateCumulativeCost or           *)
(* StateParentCumulativeCost): the fields a manager's item type does not    *)
(* have stay at None and 0.                                                 *)
FringeItem(s, p, c) == [state |-> s, parent |-> p, cumulative_cost |-> c]

(* An arena entry: From<StateParentCumulativeCost> for StateParent drops   *)
(* the cumulative cost.                                                     *)
StateParent(item) == [state |-> item.state, parent |-> item.parent]

(* A fringe entry: the item and, in BinaryHeap fringes, the score of its   *)
(* OrderedSearchable wrapper (0 in a VecDeque, which has no wrapper).       *)
OrderedSearchable(item, sc) ==
    [state |-> item.state, parent |-> item.parent,
     cumulative_cost |-> item.cumulative_cost, score |-> sc]

ItemOf(entry) == FringeItem(entry.state, entry.parent, entry.cumulative_cost)

(* Ord::cmp of two scores: -1 Less, 0 Equal, 1 Greater. *)
ScoreCmp(a, b) == IF a < b THEN -1 ELSE IF a = b THEN 0 ELSE 1

(* Ord for OrderedSearchable in the natural order of the scores. *)
OrderedCmp_natural(self, other) == ScoreCmp(self.score, other.score)

(* Ord for OrderedSearchable: other.score.cmp(&self.score). *)
OrderedCmp(self, other) == ScoreCmp(other.score, self.score)

(* A BinaryHeap is kept as a sequence in one canonical order of its        *)
(* entries: the heap's internal layout is not observable, only which       *)
(* entry pop() hands out.                                                  *)
ParentKey(p) == IF p = None THEN -1 ELSE p[1]

EntryBefore(a, b) ==
    \/ a.score < b.score
    \/ a.score = b.score /\ a.state < b.state
    \/ a.score = b.score /\ a.state = b.state
         /\ a.cumulative_cost < b.cumulative_cost
    \/ a.score = b.score /\ a.state = b.state
         /\ a.cumulative_cost = b.cumulative_cost
         /\ ParentKey(a.parent) < ParentKey(b.parent)

HeapPush(heap, e) ==
    LET k == Cardinality({i \in 1 .. Len(heap) : ~EntryBefore(e, heap[i])})
    IN  SubSeq(heap, 1, k) \o <<e>> \o SubSeq(heap, k + 1, Len(heap))

(* BinaryHeap::pop hands out a greatest entry under Ord; which one among   *)
(* equal entries is up to the heap.                                        *)
HeapGreatest(heap) ==
    LET greatest == {i \in 1 .. Len(heap) :
                        \A j \in 1 .. Len(heap) : OrderedCmp(heap[i], heap[j]) >= 0}
    IN  CASE tie_break = "any" -> greatest
          [] tie_break = "least" -> {i \in greatest : \A j \in greatest : i <= j}
          [] tie_break = "greatest" -> {i \in greatest : \A j \in greatest : i >= j}

RemoveAt(seq, i) == SubSeq(seq, 1, i - 1) \o SubSeq(seq, i + 1, Len(seq))

----------------------------------------------------------------------------
(* ExplorationManager, one definition per trait method, for variant v. *)

(* initialize leaving the visited set empty. *)
initialize_unmarked(v, s) ==
    LET initial_item == FringeItem(s, None, 0)
    IN  [fringe |-> << OrderedSearchable(initial_item,
                          IF v.ordering = "unguided" THEN 0 ELSE score(s)) >>,
         explored |-> {},
         parents |-> IF v.route THEN << StateParent(initial_item) >> ELSE << >>,
         depth_first |-> FALSE]

(* initialize: the fields of the new manager. *)
initialize(v, s) ==
    LET initial_item == FringeItem(s, None, 0)
    IN  [fringe |-> << OrderedSearchable(initial_item,
                          IF v.ordering = "unguided" THEN 0 ELSE score(s)) >>,
         explored |-> IF v.hashable THEN {s} ELSE {},
         parents |-> IF v.route THEN << StateParent(initial_item) >> ELSE << >>,
         depth_first |-> FALSE]

(* pop_state with the two ends of the deque exchanged. *)
pop_state_swapped(v, f, df) ==
    IF f = << >> THEN {}
    ELSE IF v.ordering = "unguided"
         THEN (IF df THEN {1} ELSE {Len(f)})
         ELSE HeapGreatest(f)

(* pop_state: the positions of the fringe one of which is removed and     *)
(* returned; none when the fringe is empty (None).                         *)
pop_state(v, f, df) ==
    IF f = << >> THEN {}
    ELSE IF v.ordering = "unguided"
         THEN (IF df THEN {Len(f)} ELSE {1})
         ELSE HeapGreatest(f)

(* prepare_result_from_state_parent_map: the walk up the arena.  Faults   *)
(* (the expect) when a parent index is not an index of the arena.          *)
RECURSIVE route_walk(_, _, _, _)
route_walk(arena, state, maybe_parent_index, route) ==
    IF maybe_parent_index = None
    THEN [fault |-> FALSE, value |-> <<state>> \o route]
    ELSE LET parent_index == maybe_parent_index[1]
         IN  IF parent_index + 1 \notin DOMAIN arena
             THEN [fault |-> TRUE, value |-> <<state>> \o route]
             ELSE route_walk(arena, arena[parent_index + 1].state,
                             arena[parent_index + 1].parent, <<state>> \o route)

prepare_result_from_state_parent_map(arena, item) ==
    route_walk(arena, item.state, item.parent, << >>)

(* prepare_result_from: the value Searcher::next yields for a solution. *)
prepare_result_from(v, arena, item) ==
    IF v.route
    THEN prepare_result_from_state_parent_map(arena, StateParent(item))
    ELSE [fault |-> FALSE, value |-> item.state]

(* valid_state answering true without recording the state as explored. *)
valid_state_no_insert(v, seen, item) ==
    IF v.hashable
    THEN IF item.state \notin seen
         THEN [ok |-> TRUE, explored |-> seen]
         ELSE [ok |-> FALSE, explored |-> seen]
    ELSE [ok |-> TRUE, explored |-> seen]

(* valid_state with the route managers admitting every item. *)
valid_state_route_lenient(v, seen, item) ==
    IF v.hashable /\ ~v.route
    THEN IF item.state \notin seen
         THEN [ok |-> TRUE, explored |-> seen \cup {item.state}]
         ELSE [ok |-> FALSE, explored |-> seen]
    ELSE [ok |-> TRUE, explored |-> seen]

(* valid_state: the answer, and the visited set it leaves behind. *)
valid_state(v, seen, item) ==
    IF v.hashable
    THEN IF item.state \notin seen
         THEN [ok |-> TRUE, explored |-> seen \cup {item.state}]
         ELSE [ok |-> FALSE, explored |-> seen]
    ELSE [ok |-> TRUE, explored |-> seen]

(* place_state pushing at the front of the deque. *)
place_state_front(v, f, item) ==
    CASE v.ordering = "unguided" -> <<OrderedSearchable(item, 0)>> \o f
      [] v.ordering = "guided" -> HeapPush(f, OrderedSearchable(item, score(item.state)))
      [] v.ordering = "a_star" ->
            HeapPush(f, OrderedSearchable(item, score(item.state) + item.cumulative_cost))

(* place_state ordering an A* fringe by the score alone. *)
place_state_score_only(v, f, item) ==
    CASE v.ordering = "unguided" -> Append(f, OrderedSearchable(item, 0))
      [] v.ordering = "guided" -> HeapPush(f, OrderedSearchable(item, score(item.state)))
      [] v.ordering = "a_star" -> HeapPush(f, OrderedSearchable(item, score(item.state)))

(* place_state: the fringe with the item stored. *)
place_state(v, f, item) ==
    CASE v.ordering = "unguided" -> Append(f, OrderedSearchable(item, 0))
      [] v.ordering = "guided" -> HeapPush(f, OrderedSearchable(item, score(item.state)))
      [] v.ordering = "a_star" ->
            HeapPush(f, OrderedSearchable(item, score(item.state) + item.cumulative_cost))

(* register_current_state pushing nothing for the initial item, whose      *)
(* entry initialize made, and returning that entry's index.                *)
register_current_state_reusing(v, arena, item) ==
    LET pushed == IF v.route /\ item.parent # None
                  THEN Append(arena, StateParent(item)) ELSE arena
    IN  [parents |-> pushed,
         context |-> [index |-> IF v.route THEN Len(pushed) - 1 ELSE 0,
                      cumulative_cost |->
                          IF v.ordering = "a_star" THEN item.cumulative_cost ELSE 0]]

(* register_current_state inserting the entry at the front of the arena. *)
register_current_state_front(v, arena, item) ==
    LET pushed == IF v.route THEN <<StateParent(item)>> \o arena ELSE arena
    IN  [parents |-> pushed,
         context |-> [index |-> IF v.route THEN Len(pushed) - 1 ELSE 0,
                      cumulative_cost |->
                          IF v.ordering = "a_star" THEN item.cumulative_cost ELSE 0]]

(* register_current_state returning parents.len() for parents.len() - 1. *)
register_current_state_len(v, arena, item) ==
    LET pushed == IF v.route THEN Append(arena, StateParent(item)) ELSE arena
    IN  [parents |-> pushed,
         context |-> [index |-> IF v.route THEN Len(pushed) ELSE 0,
                      cumulative_cost |->
                          IF v.ordering = "a_star" THEN item.cumulative_cost ELSE 0]]

(* register_current_state: the arena it leaves behind and the context it  *)
(* returns (an arena index, a cumulative cost, both, or the unit value).   *)
register_current_state(v, arena, item) ==
    LET pushed == IF v.route THEN Append(arena, StateParent(item)) ELSE arena
    IN  [parents |-> pushed,
         context |-> [index |-> IF v.route THEN Len(pushed) - 1 ELSE 0,
                      cumulative_cost |->
                          IF v.ordering = "a_star" THEN item.cumulative_cost ELSE 0]]

(* prepare_state taking the cost of the edge for the cumulative cost. *)
prepare_state_edge_cost(v, context, next) ==
    FringeItem(next.state,
               IF v.route THEN Some(context.index) ELSE None,
               IF v.ordering = "a_star" THEN next.cost ELSE 0)

(* prepare_state: the fringe item for one element of next_states_iter. *)
prepare_state(v, context, next) ==
    FringeItem(next.state,
               IF v.route THEN Some(context.index) ELSE None,
               IF v.ordering = "a_star"
               THEN context.cumulative_cost + next.cost ELSE 0)

(* next_states_iter: next_states_with_costs for A*; next_states for the   *)
(* others, which for a CostSearchable state drops the costs.               *)
next_states_iter(v, s) ==
    IF v.ordering = "a_star"
    THEN space.next_states_with_costs[s]
    ELSE [i \in DOMAIN space.next_states_with_costs[s] |->
            [state |-> space.next_states_with_costs[s][i].state, cost |-> 0]]

----------------------------------------------------------------------------
(* The search spaces: every state has a list of (successor, cost) pairs,   *)
(* a solution flag and a score.                                            *)

SeqsUpTo(S, n) == UNION { [1 .. k -> S] : k \in 0 .. n }

Edges(costs) == { [state |-> t, cost |-> c] : t \in States, c \in costs }

(* All ways to give each state of S a successor list, budget edges in all. *)
RECURSIVE SuccessorLists(_, _, _)
SuccessorLists(S, budget, costs) ==
    IF S = {} THEN { << >> }
    ELSE LET s == CHOOSE x \in S : TRUE
         IN  UNION { { (s :> l) @@ rest :
                         rest \in SuccessorLists(S \ {s}, budget - Len(l), costs) } :
                     l \in SeqsUpTo(Edges(costs), budget) }

Targets(next, s) == { next[s][i].state : i \in DOMAIN next[s] }

RECURSIVE Closure(_, _)
Closure(next, R) ==
    LET more == R \cup UNION { Targets(next, s) : s \in R }
    IN  IF more = R THEN R ELSE Closure(next, more)

(* The states the search can ever see. *)
Reachable(next, s) == Closure(next, {s})

(* A search never reads anything of a state it cannot reach: such states   *)
(* get no successors, no solution flag and score 0.  The state values      *)
(* other than the initial one are interchangeable: the one the initial     *)
(* state lists first is called 1.                                          *)
FirstOther(list, start) ==
    LET others == { i \in DOMAIN list : list[i].state # start }
    IN  IF others = {} THEN None
        ELSE Some(list[CHOOSE i \in others : \A j \in others : i <= j].state)

Spaces(start, costs, scores) ==
    { [next_states_with_costs |-> n, solution |-> sol, score |-> sc] :
        n \in { g \in SuccessorLists(States, MaxEdges, costs) :
                  /\ \A s \in States \ Reachable(g, start) : g[s] = << >>
                  /\ FirstOther(g[start], start) \in {None, Some(1)} },
        sol \in SUBSET States,
        sc \in [States -> scores] }

Canonical(start, sp) ==
    \A s \in States \ Reachable(sp.next_states_with_costs, start) :
        s \notin sp.solution /\ sp.score[s] = 0

----------------------------------------------------------------------------
(* Searcher::new and Searcher::next. *)

Bump(f, s) == [f EXCEPT ![s] = Min(@ + 1, 2)]

(* Before the program is written: no manager type and no space is chosen,  *)
(* and there is no Searcher.                                               *)
Init ==
    /\ space = [next_states_with_costs |-> [s \in States |-> << >>],
                solution |-> {}, score |-> [s \in States |-> 0]]
    /\ initial_state = 0
    /\ variant = [ordering |-> "unguided", route |-> FALSE, hashable |-> FALSE]
    /\ fringe = << >>
    /\ explored = {}
    /\ parents = << >>
    /\ depth_first = FALSE
    /\ pc = "new"
    /\ result = None
    /\ pulls = 0
    /\ popped = None
    /\ expansions = 0
    /\ placed = [s \in States |-> 0]
    /\ answers = [s \in States |-> << >>]
    /\ first_seen = [s \in States |-> None]
    /\ turn = 0
    /\ returned = << >>
    /\ admitted = << >>
    /\ rebuilt = << >>
    /\ tie_break = "any"

(* The program fixes its types: a manager type and a state type with its   *)
(* trait implementations (any unit-cost space; unguided managers never     *)
(* read a score), and the state it will start from.                        *)
Instantiate ==
    /\ pc = "new"
    /\ \E v \in Variants :
        \E sp \in Spaces(0, {1}, IF v.ordering = "unguided" THEN {0} ELSE Scores) :
            /\ Canonical(0, sp)
            /\ variant' = v
            /\ space' = sp
    /\ initial_state' = 0
    /\ pc' = "typed"
    /\ UNCHANGED <<fringe, explored, parents, depth_first, result, pulls, popped,
                   expansions, placed, answers, first_seen>>
    /\ UNCHANGED <<turn, returned>>
    /\ UNCHANGED tie_break
    /\ UNCHANGED rebuilt
    /\ UNCHANGED admitted

(* Searcher::new(initial_state). *)
SearcherNew ==
    /\ pc = "typed"
    /\ LET m == initialize(variant, initial_state)
       IN  /\ fringe' = m.fringe
           /\ explored' = m.explored
           /\ parents' = m.parents
           /\ depth_first' = m.depth_first
    /\ pc' = "ready"
    /\ placed' = [s \in DOMAIN space.score |-> IF s = initial_state THEN 1 ELSE 0]
    /\ first_seen' = [s \in DOMAIN space.score |->
                        IF s = initial_state
                        THEN Some(FringeItem(initial_state, None, 0)) ELSE None]
    /\ UNCHANGED <<space, initial_state, variant, result, pulls, popped,
                   expansions, answers>>
    /\ UNCHANGED <<turn, returned>>
    /\ UNCHANGED tie_break
    /\ UNCHANGED rebuilt
    /\ UNCHANGED admitted

(* loop_body placing the new item whatever valid_state answered. *)
loop_body_placing_all(v, context, item, L) ==
    LET new_item == prepare_state(v, context, item)
        verdict == valid_state(v, L.explored, new_item)
        s == new_item.state
    IN  [fringe |-> place_state(v, L.fringe, new_item),
         explored |-> verdict.explored,
         placed |-> Bump(L.placed, s),
         answers |-> IF Len(L.answers[s]) < 2
                     THEN [L.answers EXCEPT ![s] = Append(@, verdict.ok)]
                     ELSE L.answers,
         first_seen |-> IF L.first_seen[s] = None
                        THEN [L.first_seen EXCEPT ![s] = Some(new_item)]
                        ELSE L.first_seen,
         admitted |-> IF verdict.ok THEN Append(L.admitted, new_item) ELSE L.admitted]

(* One pass through the body of the for loop of Searcher::next: L holds   *)
(* what the loop has made of the fringe, the visited set and the history. *)
loop_body(v, context, item, L) ==
    LET new_item == prepare_state(v, context, item)
        verdict == valid_state(v, L.explored, new_item)
        s == new_item.state
    IN  [fringe |-> IF verdict.ok THEN place_state(v, L.fringe, new_item)
                    ELSE L.fringe,
         explored |-> verdict.explored,
         placed |-> IF verdict.ok THEN Bump(L.placed, s) ELSE L.placed,
         answers |-> IF Len(L.answers[s]) < 2
                     THEN [L.answers EXCEPT ![s] = Append(@, verdict.ok)]
                     ELSE L.answers,
         first_seen |-> IF L.first_seen[s] = None
                        THEN [L.first_seen EXCEPT ![s] = Some(new_item)]
                        ELSE L.first_seen,
         admitted |-> IF verdict.ok THEN Append(L.admitted, new_item) ELSE L.admitted]

(* The for loop of Searcher::next, from element i on. *)
RECURSIVE for_next_states(_, _, _, _, _)
for_next_states(v, context, items, i, L) ==
    IF i > Len(items) THEN L
    ELSE CHOOSE after \in { for_next_states(v, context, items, i + 1, M) :
                               M \in {loop_body(v, context, items[i], L)} } : TRUE

(* A caller calls Searcher::next, up to limit times in a run. *)
PullWithin(limit) ==
    /\ pc = "ready"
    /\ pulls < limit
    /\ pc' = "running"
    /\ pulls' = pulls + 1
    /\ popped' = None
    /\ UNCHANGED <<space, initial_state, variant, fringe, explored, parents,
                   depth_first, result, expansions, placed, answers, first_seen>>
    /\ turn' = 0
    /\ UNCHANGED returned
    /\ UNCHANGED tie_break
    /\ rebuilt' = << >>
    /\ admitted' = << >>

(* Pull starting each call from a freshly initialised manager. *)
Pull_restarting ==
    /\ pc = "ready"
    /\ pulls < MaxPulls
    /\ pc' = "running"
    /\ pulls' = pulls + 1
    /\ popped' = None
    /\ LET m == initialize(variant, initial_state)
       IN  /\ fringe' = m.fringe
           /\ explored' = m.explored
           /\ parents' = m.parents
    /\ UNCHANGED <<space, initial_state, variant,
                   depth_first, result, expansions, placed, answers, first_seen>>
    /\ turn' = 0
    /\ UNCHANGED returned
    /\ UNCHANGED tie_break
    /\ rebuilt' = << >>
    /\ admitted' = << >>

Pull == PullWithin(MaxPulls)

(* NextExhausted putting the initial item back into the fringe. *)
NextExhausted_reseeding ==
    /\ pc = "running"
    /\ pop_state(variant, fringe, depth_first) = {}
    /\ pc' = "ready"
    /\ result' = None
    /\ popped' = None
    /\ fringe' = initialize(variant, initial_state).fringe
    /\ UNCHANGED <<space, initial_state, variant, explored, parents,
                   depth_first, pulls, expansions, placed, answers, first_seen>>
    /\ turn' = 0
    /\ returned' = Append(returned, None)
    /\ UNCHANGED tie_break
    /\ UNCHANGED rebuilt
    /\ UNCHANGED admitted

(* One turn of the loop: pop_state()? returns None. *)
NextExhausted ==
    /\ pc = "running"
    /\ pop_state(variant, fringe, depth_first) = {}
    /\ pc' = "ready"
    /\ result' = None
    /\ popped' = None
    /\ UNCHANGED <<space, initial_state, variant, fringe, explored, parents,
                   depth_first, pulls, expansions, placed, answers, first_seen>>
    /\ turn' = 0
    /\ returned' = Append(returned, None)
    /\ UNCHANGED tie_break
    /\ UNCHANGED rebuilt
    /\ UNCHANGED admitted

(* NextSolution without the is_solution test. *)
NextSolution_untested ==
    /\ pc = "running"
    /\ \E i \in pop_state(variant, fringe, depth_first) :
        LET current_state == ItemOf(fringe[i])
            yield == prepare_result_from(variant, parents, current_state)
        IN  /\ fringe' = RemoveAt(fringe, i)
            /\ pc' = IF yield.fault THEN "panicked" ELSE "ready"
            /\ result' = Some(yield.value)
            /\ returned' = Append(returned, Some(yield.value))
            /\ popped' = Some(current_state)
    /\ UNCHANGED <<space, initial_state, variant, explored, parents,
                   depth_first, pulls, expansions, placed, answers, first_seen>>
    /\ turn' = 0
    /\ UNCHANGED tie_break
    /\ UNCHANGED rebuilt
    /\ UNCHANGED admitted

(* One turn of the loop: the popped item is a solution and is returned. *)
NextSolution ==
    /\ pc = "running"
    /\ \E i \in pop_state(variant, fringe, depth_first) :
        LET current_state == ItemOf(fringe[i])
            yield == prepare_result_from(variant, parents, current_state)
        IN  /\ is_solution(current_state.state)
            /\ fringe' = RemoveAt(fringe, i)
            /\ pc' = IF yield.fault THEN "panicked" ELSE "ready"
            /\ result' = Some(yield.value)
            /\ returned' = Append(returned, Some(yield.value))
            /\ popped' = Some(current_state)
    /\ UNCHANGED <<space, initial_state, variant, explored, parents,
                   depth_first, pulls, expansions, placed, answers, first_seen>>
    /\ turn' = 0
    /\ UNCHANGED tie_break
    /\ UNCHANGED rebuilt
    /\ UNCHANGED admitted

(* What expanding the item at position i of the fringe leaves behind. *)
Expansion(i) ==
    LET current_state == ItemOf(fringe[i])
        registered == register_current_state(variant, parents, current_state)
        L == for_next_states(variant, registered.context,
                             next_states_iter(variant, current_state.state), 1,
                             [fringe |-> RemoveAt(fringe, i), explored |-> explored,
                              placed |-> placed, answers |-> answers,
                              first_seen |-> first_seen, admitted |-> << >>])
    IN  [current_state |-> current_state, parents |-> registered.parents, loop |-> L]

(* The sizes past which the model does not follow a call. *)
WithinLimits(x) ==
    /\ Len(x.loop.fringe) <= MaxFringe
    /\ Len(x.parents) <= MaxArena
    /\ \A k \in DOMAIN x.loop.fringe : x.loop.fringe[k].cumulative_cost <= MaxCumulative

(* One turn of the loop: the popped item is registered and its successors  *)
(* are prepared, validated and placed.  Followed says how far the model    *)
(* follows the call.                                                       *)
LoopExpand(Followed(_)) ==
    /\ pc = "running"
    /\ \E i \in pop_state(variant, fringe, depth_first) :
        \E x \in {Expansion(i)} :
            /\ ~is_solution(x.current_state.state)
            /\ Followed(x)
            /\ fringe' = x.loop.fringe
            /\ explored' = x.loop.explored
            /\ parents' = x.parents
            /\ placed' = x.loop.placed
            /\ answers' = x.loop.answers
            /\ first_seen' = x.loop.first_seen
            /\ admitted' = x.loop.admitted
            /\ popped' = Some(x.current_state)
    /\ expansions' = Min(expansions + 1, Cardinality(DOMAIN space.score) + 1)
    /\ UNCHANGED <<space, initial_state, variant, depth_first, pc, result, pulls>>
    /\ turn' = 1 - turn
    /\ UNCHANGED returned
    /\ UNCHANGED tie_break
    /\ UNCHANGED rebuilt

NextExpand == LoopExpand(WithinLimits)

(* Between calls the caller may set the public depth_first field. *)
SetDepthFirst ==
    /\ pc = "ready"
    /\ variant.ordering = "unguided"
    /\ depth_first' = ~depth_first
    /\ UNCHANGED <<space, initial_state, variant, fringe, explored, parents,
                   pc, result, pulls, popped, expansions, placed, answers, first_seen>>
    /\ UNCHANGED <<turn, returned>>
    /\ UNCHANGED tie_break
    /\ UNCHANGED rebuilt
    /\ UNCHANGED admitted

Next == Instantiate \/ SearcherNew \/ Pull \/ NextExhausted \/ NextSolution \/ NextExpand \/ SetDepthFirst

Spec == Init /\ [][Next]_vars

(* A call of Searcher::next, once made, keeps running: the loop has no     *)
(* blocking operation.  Nothing obliges the caller to call again.          *)
Loop == NextExhausted \/ NextSolution \/ NextExpand

LiveSpec == Init /\ [][Next]_vars /\ WF_vars(Loop)

(* The least cost of a path of at most k edges from each state to a        *)
(* solution of the space sp; -1 where there is none.                       *)
RECURSIVE RemainingCost(_, _)
RemainingCost(sp, k) ==
    IF k = 0 THEN [s \in States |-> IF s \in sp.solution THEN 0 ELSE -1]
    ELSE CHOOSE r \in
           { [s \in States |->
                LET list == sp.next_states_with_costs[s]
                    via == { list[i].cost + d[list[i].state] :
                               i \in { j \in DOMAIN list : d[list[j].state] # -1 } }
                IN  IF s \in sp.solution THEN 0
                    ELSE IF via = {} THEN -1
                    ELSE CHOOSE c \in via : \A e \in via : c <= e] :
             d \in {RemainingCost(sp, k - 1)} } : TRUE

(* The score never overestimates the cost that remains to a solution. *)
Admissible(sp) ==
    LET remaining == RemainingCost(sp, Cardinality(States))
    IN  \A s \in States : remaining[s] # -1 => sp.score[s] <= remaining[s]

(* The program fixes its types for an A* search: an A* manager type and a  *)
(* CostSearchable state type whose edge costs are positive and whose score *)
(* is admissible.                                                          *)
InstantiateWeighted ==
    /\ pc = "new"
    /\ \E v \in { w \in Variants : w.ordering = "a_star" } :
        \E sp \in Spaces(0, Costs, Estimates) :
            /\ Canonical(0, sp)
            /\ Admissible(sp)
            /\ variant' = v
            /\ space' = sp
    /\ initial_state' = 0
    /\ pc' = "typed"
    /\ UNCHANGED <<fringe, explored, parents, depth_first, result, pulls, popped,
                   expansions, placed, answers, first_seen, turn, returned>>
    /\ UNCHANGED tie_break
    /\ UNCHANGED rebuilt
    /\ UNCHANGED admitted

NextWeighted ==
    InstantiateWeighted \/ SearcherNew \/ Pull \/ NextExhausted \/ NextSolution \/ NextExpand

WeightedSpec == Init /\ [][NextWeighted]_vars

----------------------------------------------------------------------------
(* A caller that keeps pulling, as a for loop over the iterator does. *)

DrainPull == PullWithin(MaxDrainPulls)

NextDrain ==
    Instantiate \/ SearcherNew \/ DrainPull \/ NextExhausted \/ NextSolution \/ NextExpand
        \/ SetDepthFirst

DrainSpec == Init /\ [][NextDrain]_vars

----------------------------------------------------------------------------
(* The manager is a public field of Searcher and prepare_result_from a     *)
(* method of the trait taking &self: between calls of next the caller may  *)
(* ask for the result of an item it holds a copy of, the item last popped  *)
(* or one in the fringe.                                                   *)

HeldItems ==
    (IF popped = None THEN {} ELSE {popped[1]})
        \cup { ItemOf(fringe[k]) : k \in DOMAIN fringe }

(* prepare_result_from taking the walked entries out of the arena. *)
Reconstruct_draining ==
    /\ pc = "ready"
    /\ Len(rebuilt) < MaxRebuilds
    /\ \E item \in HeldItems :
        LET yield == prepare_result_from(variant, parents, item)
        IN  /\ rebuilt' = Append(rebuilt, [item |-> item, value |-> yield.value])
            /\ pc' = IF yield.fault THEN "panicked" ELSE pc
            /\ parents' = IF item.parent = None THEN parents
                           ELSE SubSeq(parents, 1, item.parent[1])
    /\ UNCHANGED <<space, initial_state, variant, fringe, explored,
                   depth_first, result, pulls, popped, expansions, placed, answers,
                   first_seen, turn, returned, tie_break>>
    /\ UNCHANGED admitted

(* The caller calls manager.prepare_result_from(item). *)
Reconstruct ==
    /\ pc = "ready"
    /\ Len(rebuilt) < MaxRebuilds
    /\ \E item \in HeldItems :
        LET yield == prepare_result_from(variant, parents, item)
        IN  /\ rebuilt' = Append(rebuilt, [item |-> item, value |-> yield.value])
            /\ pc' = IF yield.fault THEN "panicked" ELSE pc
    /\ UNCHANGED <<space, initial_state, variant, fringe, explored, parents,
                   depth_first, result, pulls, popped, expansions, placed, answers,
                   first_seen, turn, returned, tie_break>>
    /\ UNCHANGED admitted

NextReconstructing ==
    Instantiate \/ SearcherNew \/ Pull \/ NextExhausted \/ NextSolution \/ NextExpand
        \/ SetDepthFirst \/ Reconstruct

ReconstructSpec == Init /\ [][NextReconstructing]_vars

----------------------------------------------------------------------------
(* The grid of the tests: struct Pos(i32, i32), the window of it within    *)
(* GridRadius of the origin.  A position is kept as one number so that     *)
(* positions have an order, as every state value of the model has.         *)

GridWidth == 2 * GridRadius + 1

Pos(x, y) == (x + GridRadius) * GridWidth + (y + GridRadius)
PosX(p) == (p \div GridWidth) - GridRadius
PosY(p) == (p % GridWidth) - GridRadius

Positions == 0 .. (GridWidth * GridWidth - 1)

Abs(n) == IF n < 0 THEN 0 - n ELSE n

(* next_states / next_states_with_costs (cost 1), is_solution and score    *)
(* of Pos.  The positions on the rim of the window are never expanded      *)
(* (InsideWindow), so their successors are left out.                       *)
GridSpace ==
    [next_states_with_costs |->
        [p \in Positions |->
            LET x == PosX(p)
                y == PosY(p)
            IN  IF Abs(x) = GridRadius \/ Abs(y) = GridRadius THEN << >>
                ELSE << [state |-> Pos(x - 1, y), cost |-> 1],
                        [state |-> Pos(x, y - 1), cost |-> 1],
                        [state |-> Pos(x + 1, y), cost |-> 1],
                        [state |-> Pos(x, y + 1), cost |-> 1] >>],
     solution |-> {Pos(5, 5)},
     score |-> [p \in Positions |-> Abs(PosX(p) - 5) + Abs(PosY(p) - 5)]]

(* The order BinaryHeap::pop takes equal entries in is fixed by the heap's  *)
(* sift-up and sift-down, not by Ord.  On the grid the guided managers are *)
(* followed under every order; the A* managers, whose equal entries are    *)
(* many, under the two extreme ones (the unhashable ones under one).       *)
TieDisciplines(v) ==
    IF v.ordering # "a_star" THEN {"any"}
    ELSE IF v.hashable THEN {"least", "greatest"}
    ELSE {"greatest"}

(* The program of the tests: a manager type, Pos as the state type, and    *)
(* Pos(0, 0) to start from.                                                *)
InstantiateGrid ==
    /\ pc = "new"
    /\ \E v \in Variants : \E t \in TieDisciplines(v) :
          /\ variant' = v
          /\ tie_break' = t
    /\ space' = GridSpace
    /\ initial_state' = Pos(0, 0)
    /\ pc' = "typed"
    /\ placed' = [p \in Positions |-> 0]
    /\ answers' = [p \in Positions |-> << >>]
    /\ first_seen' = [p \in Positions |-> None]
    /\ UNCHANGED <<fringe, explored, parents, depth_first, result, pulls, popped,
                   expansions, turn, returned>>
    /\ UNCHANGED rebuilt
    /\ UNCHANGED admitted

(* The tests call Searcher::next once. *)
FirstPull == pulls = 0 /\ Pull

(* The model follows a call on the grid while the position it expands has  *)
(* its four neighbours inside the window.                                  *)
InsideWindow(x) ==
    /\ Abs(PosX(x.current_state.state)) < GridRadius
    /\ Abs(PosY(x.current_state.state)) < GridRadius

(* The unguided unhashable managers place every successor of every popped  *)
(* position; their call is followed for its first MaxGridPops pops.        *)
GridFollowed(x) ==
    /\ InsideWindow(x)
    /\ (variant.ordering = "unguided" /\ ~variant.hashable) => expansions + 1 < MaxGridPops

GridExpand == LoopExpand(GridFollowed)

NextGrid == InstantiateGrid \/ SearcherNew \/ FirstPull \/ NextSolution \/ GridExpand

GridSpec == Init /\ [][NextGrid]_vars

(* The model has stopped following the call at its size limits. *)
Abandoned ==
    /\ pc = "running"
    /\ fringe # << >>
    /\ \A i \in pop_state(variant, fringe, depth_first) :
          ~is_solution(fringe[i].state) /\ ~WithinLimits(Expansion(i))

----------------------------------------------------------------------------
(* Vocabulary of the properties. *)

Last(seq) == seq[Len(seq)]

Transition(a, b) == b \in Targets(space.next_states_with_costs, a)

(* No call is in progress and the last one returned Some: the yielded     *)
(* value, and the state it ends in.                                        *)
Yielded == pc \in {"ready", "panicked"} /\ result # None
YieldedState == IF variant.route THEN Last(result[1]) ELSE result[1]

(* This step is a call of Searcher::next returning Some. *)
Returns == pc = "running" /\ pc' # "running" /\ result' # None

ReachableStates == Reachable(space.next_states_with_costs, initial_state)

(* The least number of transitions from a state of `from` to a state of    *)
(* `goal`, or -1 when there is no path.                                    *)
RECURSIVE StepsBetween(_, _, _)
StepsBetween(from, goal, k) ==
    IF from \cap goal # {} THEN k
    ELSE LET more == from \cup UNION { Targets(space.next_states_with_costs, s) : s \in from }
         IN  IF more = from THEN -1 ELSE StepsBetween(more, goal, k + 1)

MinSteps == StepsBetween({initial_state}, space.solution, 0)

----------------------------------------------------------------------------
(* C1: whatever a call of Searcher::next returns is a solution: the state  *)
(* itself for a no_route manager, the last state of the route for a route  *)
(* manager.                                                                *)
C1_YieldIsSolution == Yielded => is_solution(YieldedState)

C1_Witness ==
    /\ pc = "ready" /\ Yielded /\ variant.route
    /\ Len(result[1]) = 3
    /\ space.solution # States

(* C3: a route manager's result starts with the initial state, ends with   *)
(* the state of the item just popped, and each adjacent pair is a          *)
(* transition of the space.                                                *)
C3_RouteIsPath ==
    (Yielded /\ variant.route) =>
        LET route == result[1]
        IN  /\ route[1] = initial_state
            /\ popped # None /\ Last(route) = popped[1].state
            /\ \A k \in 1 .. (Len(route) - 1) : Transition(route[k], route[k + 1])

C3_Witness ==
    /\ pc = "ready" /\ Yielded /\ variant.route
    /\ Len(result[1]) = 3
    /\ result[1][1] # result[1][2] /\ result[1][2] # result[1][3]
    /\ pulls = 2

(* C4: an unguided route manager left breadth-first returns, on the first  *)
(* call, a route with the least number of steps to any solution.           *)
C4_Step ==
    (Returns /\ variant.route /\ variant.ordering = "unguided"
       /\ ~depth_first /\ pulls = 1) =>
        Len(result'[1]) - 1 = MinSteps

C4_BreadthFirstShortest == [][C4_Step]_vars

C4_Witness ==
    /\ pc = "ready" /\ Yielded /\ pulls = 1 /\ ~depth_first
    /\ variant.ordering = "unguided" /\ variant.route
    /\ Len(result[1]) = 3
    /\ Len(space.next_states_with_costs[initial_state]) = 2

(* The cost of a route: the sum, over its adjacent pairs, of the cheapest   *)
(* edge between them.                                                      *)
RECURSIVE RouteCost(_)
RouteCost(route) ==
    IF Len(route) <= 1 THEN 0
    ELSE LET list == space.next_states_with_costs[route[1]]
             fares == { list[i].cost : i \in { j \in DOMAIN list : list[j].state = route[2] } }
         IN  (CHOOSE c \in fares : \A e \in fares : c <= e) + RouteCost(Tail(route))

(* The least cost of a path from the initial state to a solution. *)
MinCost == RemainingCost(space, Cardinality(States))[initial_state]

(* The first call has returned a route whose cost, as accumulated by the  *)
(* manager and as read off the route, is the least cost to a solution.     *)
FirstRouteIsCheapest ==
    /\ popped # None /\ popped[1].cumulative_cost = MinCost
    /\ RouteCost(result[1]) = MinCost

(* C5: the non-deduplicating A* route manager, with positive edge costs    *)
(* and an admissible score, returns on its first call a route of least     *)
(* cumulative cost.                                                        *)
C5_UnhashableCheapest ==
    (Yielded /\ pulls = 1 /\ variant.ordering = "a_star" /\ variant.route
       /\ ~variant.hashable) => FirstRouteIsCheapest

(* A dearer route to the solution was generated first and a cheaper one,   *)
(* through another state, was returned.                                    *)
C5_Witness ==
    /\ pc = "ready" /\ Yielded /\ pulls = 1
    /\ variant.ordering = "a_star" /\ variant.route /\ ~variant.hashable
    /\ Len(result[1]) = 3
    /\ \E i \in DOMAIN space.next_states_with_costs[initial_state] :
          /\ space.next_states_with_costs[initial_state][i].state = Last(result[1])
          /\ space.next_states_with_costs[initial_state][i].cost > MinCost
    /\ \E s \in States : space.score[s] > 0

(* C6: the deduplicating A* route manager, with positive edge costs and    *)
(* an admissible score, returns on its first call a route of least         *)
(* cumulative cost.                                                        *)
C6_HashableCheapest ==
    (Yielded /\ pulls = 1 /\ variant.ordering = "a_star" /\ variant.route
       /\ variant.hashable) => FirstRouteIsCheapest

(* C7: in a deduplicating manager no state value is put into the fringe    *)
(* twice, and valid_state answers true the first time it is shown a value  *)
(* and false every later time.  As stated, for every state value:          *)
C7_Original ==
    variant.hashable =>
        \A s \in States :
            /\ placed[s] <= 1
            /\ Len(answers[s]) >= 1 => answers[s][1]
            /\ Len(answers[s]) >= 2 => ~answers[s][2]

(* C7 as the code has it: the initial state is marked explored by          *)
(* initialize, so valid_state answers false for it from the first time on; *)
(* every other value is accepted exactly the first time.                   *)
C7_AdmittedOnce ==
    (variant.hashable /\ pc \notin {"new", "typed"}) =>
        \A s \in States :
            /\ placed[s] <= 1
            /\ placed[s] = 1 <=> (s = initial_state \/ answers[s] # << >>)
            /\ s = initial_state => \A k \in DOMAIN answers[s] : ~answers[s][k]
            /\ (s # initial_state /\ Len(answers[s]) >= 1) => answers[s][1]
            /\ (s # initial_state /\ Len(answers[s]) >= 2) => ~answers[s][2]

C7_Witness ==
    /\ variant.hashable
    /\ Len(answers[initial_state]) >= 1
    /\ \E s \in States \ {initial_state} : Len(answers[s]) = 2 /\ placed[s] = 1

(* C8: in a deduplicating route manager the entry of a state value, in     *)
(* the fringe and in the arena, carries the parent index and cumulative    *)
(* cost of the first item built for that value; the value is in the        *)
(* visited set while its entry is in the fringe, and enters the fringe     *)
(* once.                                                                   *)
C8_FirstSeenWins ==
    (variant.hashable /\ variant.route) =>
        /\ \A k \in DOMAIN fringe :
              /\ first_seen[fringe[k].state] = Some(ItemOf(fringe[k]))
              /\ fringe[k].state \in explored
        /\ \A k \in DOMAIN parents :
              first_seen[parents[k].state] # None
              /\ parents[k] = StateParent(first_seen[parents[k].state][1])
        /\ \A s \in States : placed[s] <= 1

(* The same value has been generated under two parents, both expanded,    *)
(* and has itself been expanded.                                           *)
C8_Witness ==
    /\ variant.hashable /\ variant.route /\ variant.ordering = "a_star"
    /\ \E s \in States \ {initial_state} :
          /\ Len(answers[s]) = 2
          /\ \E k \in DOMAIN parents : parents[k].state = s
          /\ \E t \in ReachableStates \ {s, initial_state} :
                /\ Transition(t, s) /\ Transition(initial_state, s)
                /\ \E k \in DOMAIN parents : parents[k].state = t

----------------------------------------------------------------------------
(* Termination, under LiveSpec. *)

FirstCall == pc = "running" /\ pulls = 1

(* The first call has returned a solution. *)
FirstYield == pulls = 1 /\ Yielded /\ is_solution(YieldedState)

UniqueSolution == Cardinality(space.solution \cap ReachableStates) = 1

NoSolution == space.solution \cap ReachableStates = {}

(* No state of the space can reach itself. *)
Acyclic ==
    \A s \in ReachableStates :
        s \notin Closure(space.next_states_with_costs,
                         Targets(space.next_states_with_costs, s))

BreadthFirst == variant.ordering = "unguided" /\ ~depth_first

(* C2: where exactly one solution is reachable, the first call returns     *)
(* it.  As stated, for every manager (runs the model stops following at    *)
(* its size limits are not held against the statement):                    *)
C2_Original == (UniqueSolution /\ FirstCall) ~> (FirstYield \/ Abandoned)

(* C2 as the code has it: the deduplicating managers always return it;     *)
(* so do, as far as the model follows them, the non-deduplicating          *)
(* breadth-first and A* managers.  The non-deduplicating depth-first and   *)
(* guided managers can loop forever.                                       *)
C2_EventuallyYields ==
    (UniqueSolution /\ FirstCall
       /\ (variant.hashable \/ BreadthFirst \/ variant.ordering = "a_star"))
      ~> (FirstYield \/ (~variant.hashable /\ Abandoned))

C2_Witness ==
    /\ FirstYield /\ UniqueSolution /\ ~Acyclic
    /\ ~variant.hashable /\ BreadthFirst
    /\ expansions = 3

(* C9: where no solution is reachable, a call returns None and nothing is  *)
(* ever yielded.  As stated, for every manager:                            *)
C9_Original ==
    /\ (NoSolution /\ pc = "running") ~> (pc = "ready" \/ Abandoned)
    /\ [](NoSolution => result = None)

(* C9 as the code has it: a deduplicating manager always signals           *)
(* exhaustion; a non-deduplicating one does when the space has no cycle,   *)
(* and never returns when the start can reach a cycle.                     *)
C9_Exhaustion ==
    /\ (NoSolution /\ pc = "running" /\ (variant.hashable \/ Acyclic))
         ~> ((pc = "ready" /\ result = None) \/ (~variant.hashable /\ Abandoned))
    /\ [](NoSolution => result = None)
    /\ []((pc \in {"ready", "running"} /\ NoSolution /\ ~variant.hashable /\ ~Acyclic)
            => fringe # << >>)

C9_Witness ==
    /\ NoSolution /\ pc = "ready" /\ pulls = 1 /\ fringe = << >>
    /\ ~variant.hashable /\ Acyclic /\ expansions = 4

(* C10: every call of a deduplicating manager returns, and the manager     *)
(* expands at most as many items as there are reachable states.            *)
C10_HashableTerminates ==
    /\ (variant.hashable /\ pc = "running") ~> (pc = "ready")
    /\ [](variant.hashable => expansions <= Cardinality(ReachableStates))

C10_Witness ==
    /\ variant.hashable /\ ~Acyclic /\ pc = "ready" /\ pulls = 2
    /\ expansions = 3 /\ result = None

----------------------------------------------------------------------------
(* C11: once a call has returned None every later call returns None, and   *)
(* those calls leave the fringe (empty), the visited set and the arena as  *)
(* they were.                                                              *)
C11_Step ==
    /\ (pc = "running" /\ fringe = << >>) =>
          (pc' = "ready" /\ result' = None /\ UNCHANGED <<fringe, explored, parents>>)
    /\ (pc = "ready" /\ fringe = << >>) => UNCHANGED <<fringe, explored, parents>>

C11_ExhaustionPermanent ==
    /\ [][C11_Step]_vars
    /\ [](\A k \in DOMAIN returned :
            returned[k] = None =>
                /\ fringe = << >>
                /\ \A j \in k .. Len(returned) : returned[j] = None)

C11_Witness ==
    /\ returned = <<None, None>> /\ pc = "ready"
    /\ variant.hashable /\ variant.route
    /\ Cardinality(explored) = 3 /\ Len(parents) = 4

(* C12: a call that returns Some returns one value, for one item taken    *)
(* out of the fringe; between calls and on entry to the next call the      *)
(* fringe, the visited set and the arena stay as the call left them; a     *)
(* later call may return a further solution.                               *)
C12_Step ==
    /\ pc = "ready" => UNCHANGED <<fringe, explored, parents>>
    /\ Returns =>
          /\ returned' = Append(returned, result')
          /\ \E i \in DOMAIN fringe :
                /\ fringe' = RemoveAt(fringe, i)
                /\ is_solution(fringe[i].state)
                /\ fringe[i].state = IF variant.route THEN Last(result'[1]) ELSE result'[1]
          /\ UNCHANGED <<explored, parents>>

C12_OneResultPerCall ==
    /\ [][C12_Step]_vars
    /\ [](Len(returned) = IF pc = "running" THEN pulls - 1 ELSE pulls)

C12_Witness ==
    /\ pc = "ready" /\ Len(returned) = 2
    /\ returned[1] # None /\ returned[2] # None /\ returned[1] # returned[2]
    /\ expansions >= 2 /\ fringe # << >>

(* The states a turn of the loop enqueues for the successor list `list`:   *)
(* all of them without a visited set, otherwise those not in `seen` and    *)
(* not earlier in the list.                                                *)
RECURSIVE Enqueued(_, _, _)
Enqueued(list, seen, dedup) ==
    IF list = << >> THEN << >>
    ELSE IF dedup /\ Head(list).state \in seen
         THEN Enqueued(Tail(list), seen, dedup)
         ELSE <<Head(list).state>>
              \o Enqueued(Tail(list), seen \cup {Head(list).state}, dedup)

(* C13: an unguided manager starts with depth_first = false; a turn of    *)
(* the loop takes the front entry of the deque when depth_first is false   *)
(* at that moment and the back entry when it is true, and what it          *)
(* enqueues goes behind every entry already there, in successor order.     *)
C13_Step ==
    variant.ordering = "unguided" =>
        /\ (pc = "typed" /\ pc' = "ready") => depth_first' = FALSE
        /\ (pc = "running" /\ fringe # << >>) =>
              LET i == IF depth_first THEN Len(fringe) ELSE 1
                  kept == Len(fringe) - 1
                  list == space.next_states_with_costs[fringe[i].state]
              IN  /\ popped' = Some(ItemOf(fringe[i]))
                  /\ Len(fringe') >= kept
                  /\ SubSeq(fringe', 1, kept) = RemoveAt(fringe, i)
                  /\ [k \in 1 .. (Len(fringe') - kept) |-> fringe'[kept + k].state]
                        = IF is_solution(fringe[i].state) THEN << >>
                          ELSE Enqueued(list, explored, variant.hashable)

C13_BreadthFirstByDefault == [][C13_Step]_vars

(* The flag was set between two calls, and a turn of the second call has   *)
(* taken the back entry of the deque, leaving at least two entries.        *)
C13_Witness ==
    /\ variant.ordering = "unguided" /\ depth_first /\ pulls = 2
    /\ pc = "running" /\ popped # None /\ Len(fringe) >= 2
    /\ \A k \in DOMAIN fringe : fringe[k].state # popped[1].state

(* C14: in a guided manager the entry a turn of the loop takes has a       *)
(* score no greater than that of any entry of the fringe; an entry's       *)
(* score is the score of its state, and two entries compare as their       *)
(* scores do in reverse, equal exactly when the scores are equal.          *)
C14_Step ==
    (variant.ordering = "guided" /\ pc = "running" /\ fringe # << >>) =>
        /\ \E i \in DOMAIN fringe :
              /\ popped' = Some(ItemOf(fringe[i]))
              /\ fringe' = RemoveAt(fringe, i) \/ pc' = "running"
        /\ \A k \in DOMAIN fringe : score(popped'[1].state) <= score(fringe[k].state)

C14_LowestScoreFirst ==
    /\ [][C14_Step]_vars
    /\ [](variant.ordering = "guided" =>
            \A i, j \in DOMAIN fringe :
                /\ fringe[i].score = score(fringe[i].state)
                /\ OrderedCmp(fringe[i], fringe[j])
                      = ScoreCmp(score(fringe[j].state), score(fringe[i].state))
                /\ OrderedCmp(fringe[i], fringe[j]) = 0
                      <=> score(fringe[i].state) = score(fringe[j].state))

(* A solution was taken while the fringe held another state of the same    *)
(* score and a state of a greater score.                                   *)
C14_Witness ==
    /\ variant.ordering = "guided" /\ pc = "ready" /\ Yielded /\ popped # None
    /\ \E k \in DOMAIN fringe :
          /\ fringe[k].state # popped[1].state
          /\ score(fringe[k].state) = score(popped[1].state)
    /\ \E k \in DOMAIN fringe : score(fringe[k].state) > score(popped[1].state)

(* The priority of an A* item: its cumulative cost plus the score of its   *)
(* state.                                                                  *)
Priority(item) == item.cumulative_cost + score(item.state)

(* C15: in an A* manager every fringe entry is ordered by its cumulative   *)
(* cost plus the score of its state, the initial entry by the score of     *)
(* the initial state, and a turn of the loop takes an entry of least       *)
(* priority.                                                               *)
C15_Step ==
    (variant.ordering = "a_star" /\ pc = "running" /\ fringe # << >>) =>
        /\ \E i \in DOMAIN fringe : popped' = Some(ItemOf(fringe[i]))
        /\ \A k \in DOMAIN fringe : Priority(popped'[1]) <= Priority(fringe[k])

C15_PriorityIsCostPlusScore ==
    /\ [][C15_Step]_vars
    /\ [](variant.ordering = "a_star" =>
            /\ \A k \in DOMAIN fringe : fringe[k].score = Priority(fringe[k])
            /\ (pc = "ready" /\ pulls = 0) =>
                  /\ Len(fringe) = 1
                  /\ fringe[1].state = initial_state
                  /\ fringe[1].cumulative_cost = 0
                  /\ fringe[1].score = score(initial_state))

(* A solution was taken while the fringe held an entry of smaller          *)
(* cumulative cost whose score puts it no earlier.                         *)
C15_Witness ==
    /\ variant.ordering = "a_star" /\ pc = "ready" /\ Yielded /\ popped # None
    /\ score(initial_state) > 0
    /\ \E k \in DOMAIN fringe :
          /\ fringe[k].cumulative_cost < popped[1].cumulative_cost
          /\ score(fringe[k].state) > score(popped[1].state)
          /\ Priority(fringe[k]) >= Priority(popped[1])

(* C19: in a route manager every parent index held by a fringe entry or    *)
(* an arena entry is an index of the arena, the parent index of arena      *)
(* entry i is smaller than i, and no call faults in the walk up the arena. *)
C19_ParentsInArena ==
    variant.route =>
        /\ pc # "panicked"
        /\ \A k \in DOMAIN fringe :
              fringe[k].parent # None => fringe[k].parent[1] < Len(parents)
        /\ \A k \in DOMAIN parents :
              parents[k].parent # None => parents[k].parent[1] < k - 1
        /\ \A k \in DOMAIN fringe :
              ~prepare_result_from_state_parent_map(parents, StateParent(ItemOf(fringe[k]))).fault

(* A route of three states was returned from an arena of four entries      *)
(* while the fringe held an item whose parent is the newest entry.         *)
C19_Witness ==
    /\ variant.route /\ pc = "ready" /\ Yielded
    /\ Len(result[1]) = 3 /\ Len(parents) >= 4
    /\ \E k \in DOMAIN fringe : fringe[k].parent = Some(Len(parents) - 1)

(* C20: the arena of a route manager only grows at its end: a step keeps   *)
(* every entry where it is, and entry 0 is the initial state with no       *)
(* parent.                                                                 *)
C20_Step ==
    /\ Len(parents') >= Len(parents)
    /\ SubSeq(parents', 1, Len(parents)) = parents

C20_ArenaAppendOnly ==
    /\ [][C20_Step]_vars
    /\ []((variant.route /\ pc \notin {"new", "typed"}) =>
            /\ parents # << >>
            /\ parents[1] = [state |-> initial_state, parent |-> None])

C20_Witness ==
    /\ variant.route /\ pulls = 2 /\ pc = "ready"
    /\ Len(parents) = 5
    /\ \E k \in 2 .. Len(parents) : parents[k].state # initial_state

-----------------------------------------------------------------------------
(* The grid scenario of the tests. *)

Goal == Pos(5, 5)

(* Two positions differ on exactly one axis, by exactly one unit. *)
OneAxisStep(a, b) == Abs(PosX(a) - PosX(b)) + Abs(PosY(a) - PosY(b)) = 1

(* The call in progress can take its next turn: the fringe holds an entry  *)
(* and whichever entry pop_state hands out is a solution or is expanded.   *)
CallGoesOn ==
    /\ pop_state(variant, fringe, depth_first) # {}
    /\ \A i \in pop_state(variant, fringe, depth_first) :
          is_solution(ItemOf(fringe[i]).state) \/ GridFollowed(Expansion(i))

BreadthFirstHashable == variant.ordering = "unguided" /\ variant.hashable

(* C16: on the grid, from (0,0) with solution (5,5), the first call of the *)
(* breadth-first hashable no_route manager returns (5,5), and that of the  *)
(* breadth-first hashable route manager returns (0,0), (1,0), (2,0),       *)
(* (3,0), (4,0), (5,0), (5,1), (5,2), (5,3), (5,4), (5,5), each step one   *)
(* unit along one axis; the call never runs out of entries before that.    *)
C16_GridBreadthFirst ==
    BreadthFirstHashable =>
        /\ pc = "running" => CallGoesOn
        /\ (pc = "ready" /\ pulls = 1) => Yielded
        /\ (Yielded /\ ~variant.route) => result[1] = Goal
        /\ (Yielded /\ variant.route) =>
              /\ result[1] = <<Pos(0, 0), Pos(1, 0), Pos(2, 0), Pos(3, 0), Pos(4, 0),
                               Pos(5, 0), Pos(5, 1), Pos(5, 2), Pos(5, 3), Pos(5, 4),
                               Pos(5, 5)>>
              /\ \A k \in 1 .. (Len(result[1]) - 1) :
                    OneAxisStep(result[1][k], result[1][k + 1])

(* The hashable route manager returned a route of 11 positions after       *)
(* having expanded every position nearer to the start than the goal.       *)
C16_Witness ==
    /\ BreadthFirstHashable /\ variant.route /\ ~depth_first
    /\ pc = "ready" /\ Yielded /\ pulls = 1
    /\ Len(result[1]) = 11 /\ Last(result[1]) = Goal
    /\ expansions >= 100

Pops == expansions + (IF Yielded THEN 1 ELSE 0)

(* C18: on the grid with the Manhattan distance to (5,5) as score, the     *)
(* first call of a guided manager returns (5,5) (a route ending there for  *)
(* a route manager) having popped 11 positions, whichever of several       *)
(* equal entries the heap hands out.  The breadth-first manager of the     *)
(* same deduplication policy pops no fewer: the hashable one has popped at *)
(* least 11 positions when it returns, the unhashable one has not returned *)
(* after 11 pops.                                                          *)
C18_GridGuided ==
    /\ variant.ordering = "guided" =>
          /\ pc = "running" => CallGoesOn
          /\ (pc = "ready" /\ pulls = 1) => Yielded
          /\ Yielded => YieldedState = Goal /\ Pops = 11
          /\ Pops <= 11
    /\ (variant.ordering = "unguided" /\ variant.hashable /\ Yielded) => Pops >= 11
    /\ (variant.ordering = "unguided" /\ ~variant.hashable) =>
          /\ ~Yielded
          /\ (pc = "running" /\ Pops < 11) => CallGoesOn

(* The guided unhashable route manager returned a route to (5,5). *)
C18_Witness ==
    /\ variant = [ordering |-> "guided", route |-> TRUE, hashable |-> FALSE]
    /\ pc = "ready" /\ Yielded /\ pulls = 1
    /\ Last(result[1]) = Goal /\ expansions = 10

-----------------------------------------------------------------------------
(* The Searcher has been built and next has not been called yet. *)
JustInitialized == pc = "ready" /\ pulls = 0

(* C21: right after initialize(start) the fringe of every manager holds    *)
(* exactly one entry, made of start with parent None and cumulative cost   *)
(* zero (scored by start's score in a heap); the visited set of a hashable *)
(* manager is {start}; the arena of a route manager is [start, parent      *)
(* None].                                                                  *)
C21_InitializeSeedsOne ==
    JustInitialized =>
        /\ Len(fringe) = 1
        /\ ItemOf(fringe[1]) = FringeItem(initial_state, None, 0)
        /\ variant.ordering # "unguided" => fringe[1].score = score(initial_state)
        /\ variant.hashable => explored = {initial_state}
        /\ variant.route => parents = << [state |-> initial_state, parent |-> None] >>
        /\ ~variant.route => parents = << >>

(* A hashable A* route manager was initialized on a start of score 1. *)
C21_Witness ==
    /\ JustInitialized
    /\ variant = [ordering |-> "a_star", route |-> TRUE, hashable |-> TRUE]
    /\ score(initial_state) = 1
    /\ fringe[1].score = 1 /\ explored = {initial_state} /\ Len(parents) = 1

(* This step is a turn of the loop that expands the item it popped: the    *)
(* only step that leaves the call running.                                 *)
Expands == pc = "running" /\ pc' = "running"

(* The entries of a fringe that carry parent index p. *)
ChildrenOf(f, p) == { k \in DOMAIN f : f[k].parent = Some(p) }

(* C22: register_current_state is called once for each popped item that is *)
(* not a solution and not at all for one that is; in a route manager the   *)
(* call appends one arena entry, the popped item's state and parent, and   *)
(* every successor item built in that expansion carries the index of that  *)
(* entry as its parent.                                                    *)
C22_Step ==
    /\ Expands =>
          /\ popped' # None /\ ~is_solution(popped'[1].state)
          /\ expansions <= Cardinality(States) => expansions' = expansions + 1
          /\ variant.route =>
                /\ parents' = Append(parents, StateParent(popped'[1]))
                /\ Cardinality(ChildrenOf(fringe', Len(parents)))
                      = Len(fringe') - (Len(fringe) - 1)
                /\ \A s \in States :
                      (first_seen[s] = None /\ first_seen'[s] # None) =>
                          first_seen'[s][1].parent = Some(Len(parents))
          /\ ~variant.route => parents' = parents
    /\ ~Expands => (expansions' = expansions /\ (pc = "running" => parents' = parents))

C22_RegisteredOncePerExpansion == [][C22_Step]_vars

(* A route manager has expanded two items, and two entries of its fringe   *)
(* carry the index of the newest arena entry.                              *)
C22_Witness ==
    /\ variant.route /\ pc = "running"
    /\ expansions = 2 /\ Len(parents) = 3
    /\ Cardinality(ChildrenOf(fringe, Len(parents) - 1)) >= 2
    /\ Len(fringe) >= 3

(* The costs of the edges from state a to state b. *)
Fares(a, b) ==
    LET list == space.next_states_with_costs[a]
    IN  { list[i].cost : i \in { j \in DOMAIN list : list[j].state = b } }

(* The sums of edge costs along a route, one edge per adjacent pair. *)
RECURSIVE RouteSums(_)
RouteSums(route) ==
    IF Len(route) <= 1 THEN {0}
    ELSE { c + r : c \in Fares(route[1], route[2]), r \in RouteSums(Tail(route)) }

(* How many entries of a fringe hold the item. *)
CountItem(f, item) == Cardinality({ k \in DOMAIN f : ItemOf(f[k]) = item })

(* C23: in the A* managers the cumulative cost of a fringe item is the sum *)
(* of the costs of the edges along the path that discovered it: zero for   *)
(* the initial item, and for every item an expansion adds to the fringe    *)
(* the expanded item's cumulative cost plus the cost of an edge from the   *)
(* expanded state to the item's state.  In the A* route managers it is the *)
(* sum of edge costs along the route reconstructed for the item.           *)
C23_Step ==
    (Expands /\ variant.ordering = "a_star") =>
        \A k \in DOMAIN fringe' :
            LET item == ItemOf(fringe'[k])
                before == CountItem(fringe, item) - (IF item = popped'[1] THEN 1 ELSE 0)
            IN  CountItem(fringe', item) > before =>
                    (item.cumulative_cost - popped'[1].cumulative_cost)
                        \in Fares(popped'[1].state, item.state)

C23_CumulativeCostIsPathSum ==
    /\ [][C23_Step]_vars
    /\ []((JustInitialized /\ variant.ordering = "a_star") =>
              fringe[1].cumulative_cost = 0)
    /\ []((variant.ordering = "a_star" /\ variant.route) =>
              \A k \in DOMAIN fringe :
                  LET walk == prepare_result_from_state_parent_map(
                                  parents, StateParent(ItemOf(fringe[k])))
                  IN  ~walk.fault /\ fringe[k].cumulative_cost \in RouteSums(walk.value))

(* An A* route manager holds an item reached over an edge of cost 1 and    *)
(* then an edge of cost 3.                                                 *)
C23_Witness ==
    /\ variant.ordering = "a_star" /\ variant.route /\ pc = "running"
    /\ \E k \in DOMAIN fringe :
          /\ fringe[k].cumulative_cost = 4
          /\ Len(prepare_result_from_state_parent_map(
                    parents, StateParent(ItemOf(fringe[k]))).value) = 3

(* C24: prepare_result_from reads the manager and changes nothing: a call  *)
(* leaves the fringe, the visited set and the arena as they were, and two  *)
(* calls for the same item against the same manager return the same        *)
(* sequence.                                                               *)
C24_Step ==
    rebuilt' # rebuilt /\ rebuilt' # << >> =>
        /\ fringe' = fringe
        /\ explored' = explored
        /\ parents' = parents

C25_Original == [][Returns => popped = None]_vars

(* C25: a call that returns a result has popped the fringe one or more     *)
(* times: every pop but the last took a non-solution item, which was       *)
(* expanded, and the last took the solution item the call returns, one     *)
(* entry leaving the fringe and none entering it.                          *)
C25_Step ==
    /\ Returns =>
          /\ popped # None => ~is_solution(popped[1].state)
          /\ popped' # None /\ is_solution(popped'[1].state)
          /\ \E i \in DOMAIN fringe :
                ItemOf(fringe[i]) = popped'[1] /\ fringe' = RemoveAt(fringe, i)
    /\ Expands => popped' # None /\ ~is_solution(popped'[1].state)

C25_PopsUntilSolution == [][C25_Step]_vars

(* The first call returned a result after expanding two items: three pops. *)
C25_Witness ==
    /\ pc = "ready" /\ Yielded /\ pulls = 1
    /\ expansions = 2
    /\ popped # None /\ is_solution(popped[1].state)

(* How many entries of a fringe hold the state value. *)
CountState(f, s) == Cardinality({ k \in DOMAIN f : f[k].state = s })

(* How many times the successor list of state a names state b. *)
Occurrences(a, b) ==
    Cardinality({ i \in DOMAIN space.next_states_with_costs[a] :
                     space.next_states_with_costs[a][i].state = b })

(* The answers valid_state gave for state s in this step that were true,   *)
(* as far as the history records them.                                     *)
NewTrueAnswers(s) ==
    Cardinality({ k \in (Len(answers[s]) + 1) .. Len(answers'[s]) : answers'[s][k] })

(* C26: is_solution is asked of the popped item only.  A popped solution   *)
(* is returned as it is: no successor is generated, validated or enqueued  *)
(* and nothing is appended to the arena in that step.  A popped item that  *)
(* is not a solution is expanded and the call goes on, whether or not its  *)
(* successors are solutions; a successor is enqueued exactly when          *)
(* valid_state answered true for it.                                       *)
C26_Step ==
    /\ Returns =>
          /\ is_solution(popped'[1].state)
          /\ (IF variant.route THEN Last(result'[1]) ELSE result'[1]) = popped'[1].state
          /\ Len(fringe') = Len(fringe) - 1
          /\ parents' = parents /\ explored' = explored
          /\ placed' = placed /\ answers' = answers /\ first_seen' = first_seen
          /\ expansions' = expansions
    /\ (pc = "running" /\ popped' # None /\ ~is_solution(popped'[1].state)) =>
          /\ pc' = "running" /\ returned' = returned /\ result' = result
          /\ \A s \in States :
                Len(answers[s]) + Occurrences(popped'[1].state, s) <= 2 =>
                    /\ Len(answers'[s]) = Len(answers[s]) + Occurrences(popped'[1].state, s)
                    /\ CountState(fringe', s)
                          = CountState(fringe, s) - (IF s = popped'[1].state THEN 1 ELSE 0)
                              + NewTrueAnswers(s)

C26_SolutionTestOnPop == [][C26_Step]_vars

(* A hashable manager's call goes on with a solution it has generated      *)
(* waiting in the fringe, after valid_state rejected another successor.    *)
C26_Witness ==
    /\ variant.hashable /\ pc = "running" /\ popped # None
    /\ \E k \in DOMAIN fringe :
          /\ is_solution(fringe[k].state)
          /\ Transition(popped[1].state, fringe[k].state)
    /\ \E s \in States : answers[s] = <<TRUE, FALSE>>

(* The states reachable from the states of R along paths that leave        *)
(* non-solution states only.                                               *)
RECURSIVE ClosureThroughNonSolutions(_)
ClosureThroughNonSolutions(R) ==
    LET more == R \cup UNION { Targets(space.next_states_with_costs, s) :
                                  s \in { r \in R : ~is_solution(r) } }
    IN  IF more = R THEN R ELSE ClosureThroughNonSolutions(more)

(* The solutions reachable from the start through non-solution states. *)
DirectSolutions == ClosureThroughNonSolutions({initial_state}) \cap space.solution

(* The state a returned value stands for. *)
StateOf(value) == IF variant.route THEN Last(value) ELSE value

(* The calls, in order, that returned a result. *)
YieldingCalls == { k \in DOMAIN returned : returned[k] # None }

(* C27: a hashable manager pulled again and again yields no solution state *)
(* twice and yields only solutions reachable from the start through        *)
(* non-solution states; by the time a call returns None it has yielded     *)
(* every one of them.                                                      *)
C27_EverySolutionOnce ==
    (variant.hashable /\ pc \notin {"new", "typed"}) =>
        /\ \A a, b \in YieldingCalls :
              StateOf(returned[a][1]) = StateOf(returned[b][1]) => a = b
        /\ \A a \in YieldingCalls : StateOf(returned[a][1]) \in DirectSolutions
        /\ (\E k \in DOMAIN returned : returned[k] = None) =>
              { StateOf(returned[a][1]) : a \in YieldingCalls } = DirectSolutions

(* A hashable manager yielded two solutions and then None. *)
C27_Witness ==
    /\ variant.hashable /\ pc = "ready"
    /\ Len(returned) = 3
    /\ returned[1] # None /\ returned[2] # None /\ returned[3] = None
    /\ Cardinality(DirectSolutions) = 2

(* C28: in a hashable manager every state held in the fringe is in the     *)
(* visited set, no two fringe entries hold the same state value, and no    *)
(* step takes a member out of the visited set.                             *)
C28_Step == variant.hashable => explored \subseteq explored'

C28_FringeWithinVisited ==
    /\ [][C28_Step]_vars
    /\ [](variant.hashable =>
              /\ \A k \in DOMAIN fringe : fringe[k].state \in explored
              /\ \A j, k \in DOMAIN fringe : fringe[j].state = fringe[k].state => j = k)

(* During its first call a hashable manager holds two states in its        *)
(* fringe and has visited a third, which it expanded.                      *)
C28_Witness ==
    /\ variant.hashable /\ pc = "running" /\ pulls = 1
    /\ Len(fringe) = 2 /\ Cardinality(explored) = 3
    /\ expansions >= 1

(* C29: in a hashable manager valid_state answers false for every          *)
(* successor equal to the initial state, so the entry initialize made is   *)
(* the only one the initial state ever has in the fringe, and the initial  *)
(* state is expanded at most once: by the first expansion of the run or    *)
(* never.                                                                  *)
C29_Step ==
    (variant.hashable /\ Expands /\ popped'[1].state = initial_state) => expansions = 0

C29_InitialStateNeverReadmitted ==
    /\ [][C29_Step]_vars
    /\ []((variant.hashable /\ pc \notin {"new", "typed"}) =>
              /\ initial_state \in explored
              /\ placed[initial_state] = 1
              /\ \A k \in DOMAIN answers[initial_state] : ~answers[initial_state][k]
              /\ expansions > 0 => \A k \in DOMAIN fringe : fringe[k].state # initial_state)

(* Two successors equal to the initial state were generated, the second by *)
(* another state, and both were turned away.                               *)
C29_Witness ==
    /\ variant.hashable /\ pc = "running"
    /\ answers[initial_state] = <<FALSE, FALSE>>
    /\ expansions = 2 /\ popped # None /\ popped[1].state # initial_state
    /\ Transition(popped[1].state, initial_state)

(* The no_route manager type with the ordering and deduplication of v. *)
Twin(v) == [v EXCEPT !.route = FALSE]

(* A fringe of StateParent items seen as a fringe of NoContext items. *)
Bare(f) == [k \in DOMAIN f |-> [f[k] EXCEPT !.parent = None]]

(* What the no_route manager makes of expanding position i of fringe f     *)
(* with visited set seen.                                                  *)
TwinExpansion(f, seen, i) ==
    for_next_states(Twin(variant),
                    register_current_state(Twin(variant), << >>, ItemOf(f[i])).context,
                    next_states_iter(Twin(variant), f[i].state), 1,
                    [fringe |-> RemoveAt(f, i), explored |-> seen,
                     placed |-> placed, answers |-> answers, first_seen |-> first_seen,
                     admitted |-> << >>])

(* C30: an unguided route manager and the unguided no_route manager of the *)
(* same deduplication policy, started on the same state and given the same *)
(* depth_first settings, go through the same fringes and visited sets up   *)
(* to the parent indices: whatever turn of the loop the route manager      *)
(* takes, the no_route manager holding its fringe with the parents dropped *)
(* pops the same state, leaves the same states behind in the same order,   *)
(* returns the state the route ends in when the route manager returns a    *)
(* route, and returns None when it returns None.                           *)
C30_Step ==
    (variant.ordering = "unguided" /\ variant.route /\ pc = "running") =>
        LET bare == Bare(fringe)
            pops == pop_state(Twin(variant), bare, depth_first)
        IN  /\ Expands =>
                  \E i \in pops :
                      /\ bare[i].state = popped'[1].state
                      /\ ~is_solution(bare[i].state)
                      /\ TwinExpansion(bare, explored, i).fringe = Bare(fringe')
                      /\ TwinExpansion(bare, explored, i).explored = explored'
            /\ Returns =>
                  \E i \in pops :
                      /\ is_solution(bare[i].state)
                      /\ prepare_result_from(Twin(variant), << >>, ItemOf(bare[i])).value
                            = Last(result'[1])
                      /\ RemoveAt(bare, i) = Bare(fringe')
                      /\ explored' = explored
            /\ (pc' = "ready" /\ result' = None) =>
                  pops = {} /\ Bare(fringe') = bare /\ explored' = explored

C30_RouteRefinesNoRoute ==
    /\ [][C30_Step]_vars
    /\ []((JustInitialized /\ variant.ordering = "unguided" /\ variant.route) =>
              /\ Bare(fringe) = initialize(Twin(variant), initial_state).fringe
              /\ explored = initialize(Twin(variant), initial_state).explored)

(* A hashable unguided route manager, switched to depth first after its    *)
(* first result, returned a second route.                                  *)
C30_Witness ==
    /\ variant = [ordering |-> "unguided", route |-> TRUE, hashable |-> TRUE]
    /\ pc = "ready" /\ depth_first
    /\ Len(returned) = 2 /\ returned[1] # None /\ returned[2] # None
    /\ Len(returned[2][1]) >= 2
    /\ \E s \in States : answers[s] = <<TRUE, FALSE>>

(* C31: with depth_first = true the turn of the loop that follows an       *)
(* expansion pops the successor that expansion admitted last; what an      *)
(* expansion admits are, in generation order, the successors valid_state   *)
(* answered true for, and they go to the back of the deque.                *)
C31_Step ==
    variant.ordering = "unguided" =>
        /\ (pc = "running" /\ depth_first /\ admitted # << >>) =>
              popped' = Some(Last(admitted))
        /\ Expands =>
              /\ [k \in DOMAIN admitted' |-> admitted'[k].state]
                    = Enqueued(space.next_states_with_costs[popped'[1].state],
                               explored, variant.hashable)
              /\ Len(fringe') >= Len(admitted')
              /\ [k \in DOMAIN admitted' |->
                     ItemOf(fringe'[Len(fringe') - Len(admitted') + k])] = admitted'

C31_DepthFirstTakesLastAdmitted == [][C31_Step]_vars

(* With depth_first set, an expansion admitted two successors and the next *)
(* turn of the same call popped the second and returned it, the first      *)
(* still waiting in the fringe.                                            *)
C31_Witness ==
    /\ variant.ordering = "unguided" /\ depth_first
    /\ pc = "ready" /\ Yielded
    /\ Len(admitted) = 2 /\ admitted[1].state # admitted[2].state
    /\ popped = Some(admitted[2])
    /\ fringe # << >> /\ ItemOf(Last(fringe)) = admitted[1]

(* C32: in a route manager the arena holds one entry more than there have  *)
(* been expansions; once the initial state has been expanded it is stored  *)
(* twice, as entry 0 by initialize and as entry 1 by its expansion, both   *)
(* with parent None; and no fringe item and no arena entry carries parent  *)
(* index 0.  (expansions stops counting past the number of state values.)  *)
C32_ArenaCountsExpansions ==
    (variant.route /\ pc \notin {"new", "typed"}) =>
        /\ expansions <= Cardinality(States) => Len(parents) = 1 + expansions
        /\ Len(parents) >= 1 + expansions
        /\ parents[1] = [state |-> initial_state, parent |-> None]
        /\ expansions >= 1 => parents[2] = [state |-> initial_state, parent |-> None]
        /\ \A k \in DOMAIN fringe : fringe[k].parent # Some(0)
        /\ \A k \in DOMAIN parents : parents[k].parent # Some(0)

(* Two expansions made an arena of three entries, the first two the        *)
(* initial state, and the fringe holds children of entry 1 and of entry 2. *)
C32_Witness ==
    /\ variant.route /\ pc = "running"
    /\ expansions = 2 /\ Len(parents) = 3
    /\ parents[1] = parents[2] /\ parents[3].parent = Some(1)
    /\ ChildrenOf(fringe, 1) # {} /\ ChildrenOf(fringe, 2) # {}

====
